---- MODULE Spec2Model ----
(***************************************************************************)
(* Model of pubmed_paper_extract.py: the RateLimiter decorator, call_api,  *)
(* the two-phase fetch (fetch_pubmed_data, fetch_articles), the record     *)
(* parser (parse_article and its helpers) and main.                        *)
(*                                                                         *)
(* Time is counted in whole seconds.  Python values that may be None are   *)
(* modelled as tagged records (PyNone, PyStr) so that None and a string    *)
(* are different values that can be compared.                              *)
(***************************************************************************)
EXTENDS Integers, Sequences, FiniteSets, TLC

VARIABLES
    \* ---- RateLimiter instance (self.*) and the wall clock
    calls,          \* self.calls
    period,         \* self.period
    last_reset,     \* self.last_reset
    num_calls,      \* self.num_calls
    clock,          \* datetime.now()
    invoked,        \* history: the clock times at which the wrapped func was called
    slept,          \* the argument of the last wrapper's time.sleep (0: no sleep)
    func_raised,    \* whether the last wrapped call raised
    window_calls,   \* history: calls of func since last_reset was last assigned
    \* ---- main / fetch_pubmed_data / fetch_articles
    pc,             \* position of main
    batch_size,     \* fetch_articles' batch_size
    json_shape,     \* shape of the search response's JSON
    id_list,        \* search_results["esearchresult"]["idlist"]
    i,              \* loop variable of fetch_articles
    articles,       \* accumulator of fetch_articles
    chunks,         \* history: the batch_ids of every loop iteration
    gets,           \* history: every requests.get issued, with the response it got
    docs,           \* history: the article lists of the parsed fetch responses
    results,        \* what fetch_pubmed_data returned to main
    exported,       \* rows written by save_results_to_excel
    error,          \* the exception that ended the run ("none": no exception)
    \* ---- parse_article on one element
    article,        \* the input element
    record,         \* the returned dict, or the exception raised
    parsed          \* whether parse_article has run

limiterVars == <<calls, period, last_reset, num_calls, clock, invoked, slept, func_raised,
                 window_calls>>
fetchVars   == <<pc, batch_size, json_shape, id_list, i, articles, chunks, gets, docs, results,
                 exported, error>>
parserVars  == <<article, record, parsed>>
vars == <<limiterVars, fetchVars, parserVars>>

\* ---------------------------------------------------------------- bounds
MaxCalls == 2
MaxPeriod == 3
MaxClock == 8
MaxInvocations == 5
MaxAuthors == 2
MaxKeywords == 2
MaxIds == 3
MaxBatch == 2

\* ---------------------------------------------------------------- program constants
\* line 33: @RateLimiter(calls=1, period=3)
ApiCalls == 1
ApiPeriod == 3
\* line 37: response.status_code != 200
StatusOK == 200
\* line 117: time.sleep(random.uniform(2, 3))
NapMin == 2
NapMax == 3

\* ---------------------------------------------------------------- RateLimiter

\* by how many seconds a time.sleep may overshoot: not at all, or by one
Oversleeps == {0, 1}

\* line 18: now - self.last_reset > timedelta(seconds=self.period)
expired(now) == now - last_reset > period

\* time_to_wait with the subtraction the wrong way round: never positive, never sleeps
time_to_wait_negated(now, reset) == (now - reset) - period

\* line 23: self.period - (now - self.last_reset).total_seconds()
time_to_wait(now, reset) == period - (now - reset)

\* wrapper without line 26: the counter is not reset after the compensatory sleep
wrapper_keeps_count(now, over) ==
    LET exp  == expired(now)
        nc1  == IF exp THEN 0 ELSE num_calls
        lr1  == IF exp THEN now ELSE last_reset
        wait == time_to_wait(now, lr1)
        now2 == IF wait > 0 THEN now + wait + over ELSE now
    IN  IF nc1 >= calls
        THEN [num_calls |-> nc1 + 1, last_reset |-> now2, at |-> now2,
              slept |-> IF wait > 0 THEN wait ELSE 0, reset |-> TRUE]
        ELSE [num_calls |-> nc1 + 1, last_reset |-> lr1, at |-> now,
              slept |-> 0, reset |-> exp]

\* lines 16-30: the state the wrapper leaves and the time at which it calls func;
\* `now` is the clock on entry, `over` is by how much time.sleep overshoots.
wrapper(now, over) ==
    LET exp  == expired(now)
        nc1  == IF exp THEN 0 ELSE num_calls
        lr1  == IF exp THEN now ELSE last_reset
        wait == time_to_wait(now, lr1)
        now2 == IF wait > 0 THEN now + wait + over ELSE now
    IN  IF nc1 >= calls
        THEN [num_calls |-> 0 + 1, last_reset |-> now2, at |-> now2,
              slept |-> IF wait > 0 THEN wait ELSE 0, reset |-> TRUE]
        ELSE [num_calls |-> nc1 + 1, last_reset |-> lr1, at |-> now,
              slept |-> 0, reset |-> exp]

\* ---------------------------------------------------------------- Python values

PyNone == [type |-> "NoneType"]
PyStr(s) == [type |-> "str", value |-> s]
\* an exception propagating out of a call, in place of its return value
PyRaise(e) == [exception |-> e]
IsRaise(v) == "exception" \in DOMAIN v

\* str.join on strings only
RECURSIVE join_strs(_, _)
join_strs(sep, strs) ==
    IF strs = <<>> THEN ""
    ELSE IF Len(strs) = 1 THEN strs[1]
    ELSE strs[1] \o sep \o join_strs(sep, Tail(strs))

\* sep.join(parts): TypeError when an item is not a str
join(sep, parts) ==
    IF \E k \in 1..Len(parts) : parts[k].type # "str"
    THEN PyRaise("TypeError")
    ELSE PyStr(join_strs(sep, [k \in 1..Len(parts) |-> parts[k].value]))

\* f"{v}": str(None) is "None"
format(v) == IF v.type = "NoneType" THEN "None" ELSE v.value

\* ---------------------------------------------------------------- XML elements
\* An element is modelled by what the paths the program looks up find in it:
\* element.find(path) is NoNode (Python's None: no such node) or a Node with its
\* .text, which ElementTree sets to None for an element without text.

NoNode == [node |-> FALSE]
Node(text) == [node |-> TRUE, text |-> text]

\* lines 49-52
extract_text_or_default(element, xpath, default) ==
    LET found == element[xpath]
    IN  IF found.node THEN found.text ELSE PyStr(default)

\* lines 41-47
parse_pubdate(pub_date) ==
    LET elems == [k \in 1..3 |-> pub_date[<<"Year", "Month", "Day">>[k]]]
        date_parts == [k \in 1..Len(SelectSeq(elems, LAMBDA e : e.node)) |->
                          SelectSeq(elems, LAMBDA e : e.node)[k].text]
    IN  IF date_parts # <<>> THEN join("-", date_parts)
        ELSE PyStr("Date not available")

\* lines 56-62: the `authors` list built by the loop over the Author elements
RECURSIVE author_names(_)
author_names(author_elems) ==
    IF author_elems = <<>> THEN <<>>
    ELSE LET author   == Head(author_elems)
             lastname == extract_text_or_default(author, "LastName", "Not available")
             forename == extract_text_or_default(author, "ForeName", "Not available")
         IN  (IF lastname # PyStr("Not available")
              THEN <<PyStr(format(lastname) \o ", " \o format(forename))>>
              ELSE <<>>) \o author_names(Tail(author_elems))

\* lines 57, 64-66: the `affiliations` set built by the same loop
author_affiliations(author_elems) ==
    {extract_text_or_default(author_elems[k], "Affiliation", "Not available") :
        k \in 1..Len(author_elems)} \ {PyStr("Not available")}

\* the orders in which iterating a Python set may yield its elements
Iterations(set) ==
    {order \in [1..Cardinality(set) -> set] : {order[k] : k \in DOMAIN order} = set}

\* lines 54-71; `order` is the order in which "; ".join iterates the set
parse_authors_and_affiliations(element, order) ==
    LET authors == author_names(element.Authors)
    IN  <<IF authors # <<>> THEN join("; ", authors)
          ELSE PyStr("Authors not available"),
          IF order # <<>> THEN join("; ", order)
          ELSE PyStr("Affiliations not available")>>

\* lines 121-148; an exception raised by a join propagates
parse_article(element, order) ==
    LET pmid     == extract_text_or_default(element, "PMID", "Not available")
        title    == extract_text_or_default(element, "ArticleTitle", "Not available")
        abstract == extract_text_or_default(element, "AbstractText", "Not available")
        pub_date == element.PubDate
        date     == IF pub_date.node THEN parse_pubdate(pub_date)
                    ELSE PyStr("Date not available")
        journal  == extract_text_or_default(element, "JournalTitle", "Not available")
        aa       == parse_authors_and_affiliations(element, order)
        keywords == IF element.Keywords # <<>> THEN join("; ", element.Keywords)
                    ELSE PyStr("Keywords not available")
        doi      == extract_text_or_default(element, "ELocationID_doi", "Not available")
    IN  IF \E v \in {date, aa[1], aa[2], keywords} : IsRaise(v)
        THEN PyRaise("TypeError")
        ELSE [pmid |-> pmid, title |-> title, abstract |-> abstract, date |-> date,
              journal |-> journal, authors |-> aa[1], affiliations |-> aa[2],
              keywords |-> keywords, doi |-> doi]

\* the fixed field set of a record
Fields == {"pmid", "title", "abstract", "date", "journal", "authors", "affiliations",
           "keywords", "doi"}

\* lines 9-13: RateLimiter.__init__ at clock time 0
LimiterInit(c, p) ==
    /\ calls = c
    /\ period = p
    /\ last_reset = 0
    /\ num_calls = 0
    /\ clock = 0
    /\ invoked = <<>>
    /\ slept = 0
    /\ func_raised = FALSE
    /\ window_calls = 0

FetchIdle ==
    /\ pc = "idle" /\ batch_size = 0 /\ json_shape = "none" /\ id_list = <<>>
    /\ i = 0 /\ articles = <<>> /\ chunks = <<>> /\ gets = <<>> /\ docs = <<>>
    /\ results = <<>> /\ exported = <<>> /\ error = "none"

ParserIdle ==
    /\ article = <<>> /\ record = <<>> /\ parsed = FALSE

\* ---- the limiter alone, wrapping an arbitrary function, under an arbitrary clock
InitLimiter ==
    /\ \E c \in 1..MaxCalls, p \in 1..MaxPeriod : LimiterInit(c, p)
    /\ FetchIdle
    /\ ParserIdle

\* time passes between two calls of the wrapped function
Tick ==
    /\ clock < MaxClock
    /\ clock' = clock + 1
    /\ UNCHANGED <<calls, period, last_reset, num_calls, invoked, slept, func_raised,
                   window_calls>>
    /\ UNCHANGED <<fetchVars, parserVars>>

\* one call of the decorated function: the wrapper, then func, which returns or raises
Call ==
    /\ Len(invoked) < MaxInvocations
    /\ \E over \in Oversleeps, raises \in BOOLEAN :
          LET w == wrapper(clock, over) IN
          /\ w.at <= MaxClock
          /\ num_calls' = w.num_calls
          /\ last_reset' = w.last_reset
          /\ slept' = w.slept
          /\ clock' = w.at
          /\ invoked' = Append(invoked, w.at)
          /\ func_raised' = raises
          /\ window_calls' = IF w.reset THEN 1 ELSE window_calls + 1
    /\ UNCHANGED <<calls, period>>
    /\ UNCHANGED <<fetchVars, parserVars>>

NextLimiter == Tick \/ Call

SpecLimiter == InitLimiter /\ [][NextLimiter]_vars

\* ---------------------------------------------------------------- C1

\* the invocations a..b of the wrapped function all fall in a time window shorter
\* than `period`
WithinOnePeriod(a, b) == invoked[b] - invoked[a] < period

\* C1 (as stated): no time window of length `period` holds more than `calls`
\* invocations of the wrapped function, that is, any calls + 1 successive
\* invocations span at least `period` seconds (with calls = 1: two consecutive
\* invocations are at least `period` apart).
C1_SlidingWindow ==
    \A a \in 1..Len(invoked) : \A b \in a..Len(invoked) :
        b - a >= calls => ~WithinOnePeriod(a, b)

\* C1 (amended): the limiter is a fixed-window one: no time window of length
\* `period` holds more than 2 * calls invocations, that is, any 2 * calls + 1
\* successive invocations span at least `period` seconds (with calls = 1: an
\* invocation and the next but one are at least `period` apart).
C1_FixedWindowBurst ==
    \A a \in 1..Len(invoked) : \A b \in a..Len(invoked) :
        b - a >= 2 * calls => ~WithinOnePeriod(a, b)

\* a boundary burst with calls = 1, period = 3: two consecutive invocations less
\* than 3 seconds apart, followed by a third one
C1_Witness ==
    /\ calls = 1 /\ period = 3
    /\ Len(invoked) >= 3
    /\ invoked[2] - invoked[1] < 3
    /\ invoked[3] - invoked[1] >= 3

\* ---------------------------------------------------------------- C2

\* a step that is one invocation of the wrapped function
IsInvocation == Len(invoked') = Len(invoked) + 1

\* C2: in every invocation the counter ends in 1..calls, is incremented exactly
\* once (whether or not the wrapped function raises), at most `calls` invocations
\* are made between two assignments to last_reset, and an invocation that finds
\* num_calls at `calls` inside the current window sleeps the remaining time of the
\* window and then opens a new window with num_calls = 1.
C2_WindowCount ==
    [][IsInvocation =>
        /\ 1 <= num_calls' /\ num_calls' <= calls
        /\ num_calls' = (IF last_reset' # last_reset THEN 0 ELSE num_calls) + 1
        /\ window_calls' = num_calls' /\ window_calls' <= calls
        /\ (num_calls >= calls /\ clock - last_reset <= period) =>
              /\ slept' = period - (clock - last_reset)
              /\ invoked'[Len(invoked')] >= last_reset + period
              /\ last_reset' = invoked'[Len(invoked')]
              /\ num_calls' = 1
    ]_vars

\* an invocation that found the window full was delayed, opened a new window, and
\* the wrapped function raised
C2_Witness ==
    /\ Len(invoked) >= 2
    /\ slept > 0
    /\ last_reset = invoked[Len(invoked)]
    /\ num_calls = 1
    /\ func_raised

\* ---------------------------------------------------------------- parse_article alone

\* what a looked-up path may find: no node, a node without text, a node with text
Texts(strs) == {NoNode, Node(PyNone)} \cup {Node(PyStr(t)) : t \in strs}

SeqsUpTo(S, n) == UNION {[1..k -> S] : k \in 0..n}

PubDates ==
    {NoNode} \cup
    {[node |-> TRUE, Year |-> y, Month |-> m, Day |-> d] :
        y \in Texts({"2020"}), m \in Texts({"05"}), d \in Texts({"17"})}

\* Author elements: every combination of names without affiliation, and every
\* affiliation under one full name
AuthorElems ==
    [LastName : Texts({"Smith"}), ForeName : Texts({"Jane", "Bob"}),
     Affiliation : {NoNode}]
    \cup [LastName : {Node(PyStr("Smith"))}, ForeName : {Node(PyStr("Jane"))},
          Affiliation : Texts({"MIT", "ETH"})]

KeywordTexts == {PyNone, PyStr("CRISPR"), PyStr("yeast")}

\* <PubmedArticle/>: nothing is found
EmptyArticle ==
    [PMID |-> NoNode, ArticleTitle |-> NoNode, AbstractText |-> NoNode,
     JournalTitle |-> NoNode, ELocationID_doi |-> NoNode, PubDate |-> NoNode,
     Authors |-> <<>>, Keywords |-> <<>>]

\* an article with every field present and with text
FullArticle ==
    [PMID |-> Node(PyStr("101")), ArticleTitle |-> Node(PyStr("A title")),
     AbstractText |-> Node(PyStr("An abstract")),
     JournalTitle |-> Node(PyStr("A journal")),
     ELocationID_doi |-> Node(PyStr("10.1/x")),
     PubDate |-> [node |-> TRUE, Year |-> Node(PyStr("2020")),
                  Month |-> Node(PyStr("05")), Day |-> Node(PyStr("17"))],
     Authors |-> <<[LastName |-> Node(PyStr("Smith")), ForeName |-> Node(PyStr("Jane")),
                    Affiliation |-> Node(PyStr("MIT"))]>>,
     Keywords |-> <<PyStr("CRISPR")>>]

\* the elements parse_article is tried on: the empty and the full article, each with
\* one group of sub-elements ranging over everything a document can hold there
ArticleSet ==
    UNION {
        {[base EXCEPT !.PMID = p, !.ArticleTitle = t, !.AbstractText = a,
                      !.JournalTitle = j, !.ELocationID_doi = d] :
            p \in Texts({"101"}), t \in Texts({"A title"}), a \in Texts({"An abstract"}),
            j \in Texts({"A journal"}), d \in Texts({"10.1/x"})}
        \cup {[base EXCEPT !.PubDate = pd] : pd \in PubDates}
        \cup {[base EXCEPT !.Authors = au] : au \in SeqsUpTo(AuthorElems, MaxAuthors)}
        \cup {[base EXCEPT !.Keywords = kw] : kw \in SeqsUpTo(KeywordTexts, MaxKeywords)}
        : base \in {EmptyArticle, FullArticle}}

InitParser ==
    /\ LimiterInit(ApiCalls, ApiPeriod)
    /\ FetchIdle
    /\ article \in ArticleSet
    /\ record = <<>>
    /\ parsed = FALSE

\* parse_article(article); the set of affiliations is iterated in some order
ParseArticle ==
    /\ ~parsed
    /\ \E order \in Iterations(author_affiliations(article.Authors)) :
          record' = parse_article(article, order)
    /\ parsed' = TRUE
    /\ UNCHANGED article
    /\ UNCHANGED <<limiterVars, fetchVars>>

NextParser == ParseArticle

SpecParser == InitParser /\ [][NextParser]_vars

\* ---------------------------------------------------------------- the fetch pipeline

Min(a, b) == IF a < b THEN a ELSE b

Statuses == {200, 204, 500}
JsonShapes == {"ok", "no_esearchresult", "no_idlist"}
Ids == {"101", "102"}
IdLists == SeqsUpTo(Ids, MaxIds)

\* call_api without the status check of lines 37-38
call_api_raises_never(status) == FALSE

\* lines 37-38: call_api raises on this status
call_api_raises(status) == status # StatusOK

\* id_list[i:i+batch_size-1]: a slice one short
batch_ids_short(ids, start, size) == SubSeq(ids, start + 1, Min(start + size - 1, Len(ids)))

\* line 101: id_list[i:i+batch_size]
batch_ids(ids, start, size) == SubSeq(ids, start + 1, Min(start + size, Len(ids)))

\* articles.insert(0, ...) in place of append: new records go in front
extend_in_front(acc, recs) == recs \o acc

\* lines 111-112: the records of one response appended in document order
extend(acc, recs) == acc \o recs

\* the article the service holds for an identifier
ArticleFor(id) == [FullArticle EXCEPT !.PMID = Node(PyStr(id))]

\* one article per requested identifier, in request order
Faithful(ids) == [k \in 1..Len(ids) |-> ArticleFor(ids[k])]

\* the PubmedArticle elements a fetch response may hold: all of them, all but the
\* last, or all of them with an empty <Keyword/> in the first
Responses(ids) ==
    {Faithful(ids), SubSeq(Faithful(ids), 1, Len(ids) - 1),
     [Faithful(ids) EXCEPT ![1].Keywords = <<PyNone>>]}

\* for each article of a document, an iteration order of its set of affiliations
ParseOrders(doc) ==
    {orders \in [1..Len(doc) ->
                    UNION {Iterations(author_affiliations(doc[k].Authors)) :
                              k \in 1..Len(doc)}] :
        \A k \in 1..Len(doc) :
            orders[k] \in Iterations(author_affiliations(doc[k].Authors))}

\* line 156
headers == <<"pmid", "title", "date", "journal", "authors", "affiliations", "keywords",
             "doi", "abstract">>

\* line 160: [article.get(key, "Not available") for key in headers]
row(rec) ==
    [k \in 1..Len(headers) |->
        IF headers[k] \in DOMAIN rec THEN rec[headers[k]] ELSE PyStr("Not available")]

\* the wrapper's effect on the limiter, for a wrapped call that raises or not
Limited(w, raises) ==
    /\ num_calls' = w.num_calls
    /\ last_reset' = w.last_reset
    /\ slept' = w.slept
    /\ invoked' = Append(invoked, w.at)
    /\ func_raised' = raises
    /\ window_calls' = IF w.reset THEN 1 ELSE window_calls + 1
    /\ UNCHANGED <<calls, period>>

\* the import (line 33) followed by main(), whose batch size is an input
Init ==
    /\ LimiterInit(ApiCalls, ApiPeriod)
    /\ pc = "main"
    /\ batch_size \in 1..MaxBatch
    /\ json_shape = "none" /\ id_list = <<>> /\ i = 0 /\ articles = <<>>
    /\ chunks = <<>> /\ gets = <<>> /\ docs = <<>> /\ results = <<>>
    /\ exported = <<>> /\ error = "none"
    /\ ParserIdle

\* lines 173, 73-95: main calls fetch_pubmed_data, which searches and, with an ID
\* list, enters fetch_articles
Search ==
    /\ pc = "main"
    /\ \E over \in Oversleeps, status \in Statuses, shape \in JsonShapes :
          LET w == wrapper(clock, over)
              raises == call_api_raises(status)
          IN  /\ Limited(w, raises)
              /\ clock' = w.at
              /\ gets' = Append(gets, [url |-> "esearch.fcgi", id |-> "",
                                       status |-> status, body |-> shape,
                                       raised |-> raises])
              /\ json_shape' = shape
              /\ IF raises
                 THEN \* line 38: call_api raises
                      /\ pc' = "aborted" /\ error' = "Exception"
                      /\ UNCHANGED <<id_list, results>>
                 ELSE IF shape = "no_esearchresult"
                 THEN \* lines 90-92
                      /\ pc' = "returned" /\ results' = <<>>
                      /\ UNCHANGED <<id_list, error>>
                 ELSE IF shape = "no_idlist"
                 THEN \* line 94: KeyError
                      /\ pc' = "aborted" /\ error' = "KeyError"
                      /\ UNCHANGED <<id_list, results>>
                 ELSE \* lines 94-95, 99
                      /\ pc' = "fetch_articles"
                      /\ id_list' \in IdLists
                      /\ UNCHANGED <<results, error>>
    /\ UNCHANGED <<batch_size, i, articles, chunks, docs, exported>>
    /\ UNCHANGED parserVars

\* lines 100-117: one iteration of the loop of fetch_articles
FetchBatch ==
    /\ pc = "fetch_articles"
    /\ i < Len(id_list)
    /\ \E over \in Oversleeps, status \in Statuses :
          LET batch == batch_ids(id_list, i, batch_size)
              w == wrapper(clock, over)
              raises == call_api_raises(status)
              Request(body) ==
                  gets' = Append(gets, [url |-> "efetch.fcgi",
                                        id |-> join_strs(",", batch),
                                        status |-> status, body |-> body,
                                        raised |-> raises])
          IN
          /\ Limited(w, raises)
          /\ chunks' = Append(chunks, batch)
          /\ IF raises
             THEN \* line 38: call_api raises
                  /\ \E body \in {"xml", "malformed"} : Request(body)
                  /\ pc' = "aborted" /\ error' = "Exception" /\ clock' = w.at
                  /\ UNCHANGED <<i, articles, docs>>
             ELSE \/ \* line 109: ElementTree.fromstring raises
                     /\ Request("malformed")
                     /\ pc' = "aborted" /\ error' = "ParseError" /\ clock' = w.at
                     /\ UNCHANGED <<i, articles, docs>>
                  \/ /\ Request("xml")
                     /\ \E doc \in Responses(batch) : \E orders \in ParseOrders(doc) :
                           LET recs == [k \in 1..Len(doc) |->
                                           parse_article(doc[k], orders[k])]
                               bad  == {k \in 1..Len(doc) : IsRaise(recs[k])}
                           IN  /\ docs' = Append(docs, doc)
                               /\ IF bad # {}
                                  THEN \* line 112: parse_article raises
                                       /\ pc' = "aborted" /\ error' = "TypeError"
                                       /\ clock' = w.at
                                       /\ articles' = extend(articles,
                                             SubSeq(recs, 1,
                                                (CHOOSE k \in bad :
                                                    \A m \in bad : k <= m) - 1))
                                       /\ UNCHANGED i
                                  ELSE \* lines 111-117: append, print, sleep
                                       /\ articles' = extend(articles, recs)
                                       /\ \E nap \in NapMin..NapMax :
                                             clock' = w.at + nap
                                       /\ i' = i + batch_size
                                       /\ UNCHANGED <<pc, error>>
    /\ UNCHANGED <<batch_size, json_shape, id_list, results, exported>>
    /\ UNCHANGED parserVars

\* lines 119, 95: the loop is over; fetch_articles and fetch_pubmed_data return
FetchReturn ==
    /\ pc = "fetch_articles"
    /\ i >= Len(id_list)
    /\ results' = articles
    /\ pc' = "returned"
    /\ UNCHANGED <<batch_size, json_shape, id_list, i, articles, chunks, gets, docs,
                   exported, error>>
    /\ UNCHANGED <<limiterVars, parserVars>>

\* lines 175-177, 150-169: main prints the count and saves the spreadsheet
Save ==
    /\ pc = "returned"
    /\ exported' = <<headers>> \o [k \in 1..Len(results) |-> row(results[k])]
    /\ pc' = "done"
    /\ UNCHANGED <<batch_size, json_shape, id_list, i, articles, chunks, gets, docs,
                   results, error>>
    /\ UNCHANGED <<limiterVars, parserVars>>

Next == Search \/ FetchBatch \/ FetchReturn \/ Save

Spec == Init /\ [][Next]_vars

\* ---------------------------------------------------------------- claims on the pipeline

RECURSIVE Flatten(_)
Flatten(seqs) == IF seqs = <<>> THEN <<>> ELSE Head(seqs) \o Flatten(Tail(seqs))

\* ceil(n / d)
CeilDiv(n, d) == (n + d - 1) \div d

IsPrefix(p, q) == Len(p) <= Len(q) /\ SubSeq(q, 1, Len(p)) = p

\* fetch_articles ran to its end and returned
FetchCompleted == pc \in {"returned", "done"} /\ json_shape = "ok"

\* a status the service calls a success
Success(status) == status \in 200..299

\* ---------------------------------------------------------------- C3

\* C3: the chunks sent, concatenated in sending order, are the identifier list in
\* its order (a prefix of it while the loop runs); every chunk is non-empty and
\* holds at most batch_size identifiers; a completed fetch has sent
\* ceil(L / batch_size) chunks, none (and no fetch call) when L = 0.
C3_Chunking ==
    /\ IsPrefix(Flatten(chunks), id_list)
    /\ \A k \in 1..Len(chunks) : chunks[k] # <<>> /\ Len(chunks[k]) <= batch_size
    /\ FetchCompleted =>
          /\ Flatten(chunks) = id_list
          /\ Len(chunks) = CeilDiv(Len(id_list), batch_size)
          /\ id_list = <<>> => Len(gets) = 1

\* three identifiers in batches of two: a full chunk, then a partial one
C3_Witness ==
    /\ FetchCompleted
    /\ Len(id_list) = 3 /\ id_list[1] # id_list[2]
    /\ batch_size = 2
    /\ Len(chunks) = 2 /\ Len(chunks[2]) = 1

\* ---------------------------------------------------------------- C4

\* the k-th request is a fetch call that failed: a non-success status, or a body
\* that is not well-formed XML
FetchFailed(k) ==
    /\ gets[k].url = "efetch.fcgi"
    /\ ~Success(gets[k].status) \/ gets[k].body = "malformed"

\* C4: a failed fetch call is the last request of the run, the run is aborted,
\* nothing was returned to main and nothing was exported.
C4_AtomicAbort ==
    \A k \in 1..Len(gets) :
        FetchFailed(k) =>
            /\ k = Len(gets)
            /\ pc = "aborted" /\ error # "none"
            /\ results = <<>>
            /\ exported = <<>>

\* chunk 2 of 2 answered with HTTP 500 after chunk 1 had yielded records
C4_Witness ==
    /\ Len(gets) = 3 /\ gets[3].status = 500 /\ gets[3].body = "xml"
    /\ Len(id_list) = 3
    /\ articles # <<>>
    /\ pc = "aborted"

\* ---------------------------------------------------------------- C5

\* C5 (as stated): a search response without esearchresult.idlist (no
\* "esearchresult", or an "esearchresult" without "idlist") makes
\* fetch_pubmed_data return an empty list without failing and without any fetch call.
C5_MissingKeyIsSoft ==
    (/\ gets # <<>>
     /\ gets[1].status = StatusOK
     /\ gets[1].body \in {"no_esearchresult", "no_idlist"}) =>
        /\ pc \in {"returned", "done"}
        /\ error = "none"
        /\ results = <<>>
        /\ Len(gets) = 1

\* ---------------------------------------------------------------- C6

\* C6 (as stated): call_api raises exactly on the statuses that are not 2xx, and
\* every invocation of call_api issues exactly one GET.
C6_FailsExactlyOnNon2xx ==
    /\ Len(gets) = Len(invoked)
    /\ \A k \in 1..Len(gets) : gets[k].raised <=> ~Success(gets[k].status)

\* ---------------------------------------------------------------- C7

\* the chunk the k-th fetch call of a run over `ids` is to carry
ChunkOf(ids, size, k) == SubSeq(ids, (k - 1) * size + 1, Min(k * size, Len(ids)))

\* C7: a completed fetch has issued one search call and then ceil(L / batch_size)
\* fetch calls, the k-th with the k-th chunk; the result is the records of the
\* responses' articles, response after response, each in document order; when
\* every response holds one article per requested identifier in request order,
\* the result has L records whose pmids are the identifiers in the search's order.
C7_RunShape ==
    FetchCompleted =>
        LET n == CeilDiv(Len(id_list), batch_size)
            elems == Flatten(docs)
        IN  /\ Len(gets) = 1 + n
            /\ gets[1].url = "esearch.fcgi"
            /\ \A k \in 1..n :
                  /\ gets[k + 1].url = "efetch.fcgi"
                  /\ gets[k + 1].id = join_strs(",", ChunkOf(id_list, batch_size, k))
            /\ Len(invoked) = 1 + n
            /\ \A k \in 1..n : invoked[k] <= invoked[k + 1]
            /\ Len(results) = Len(elems)
            /\ \A j \in 1..Len(elems) :
                  \E order \in Iterations(author_affiliations(elems[j].Authors)) :
                      results[j] = parse_article(elems[j], order)
            /\ (\A k \in 1..n : docs[k] = Faithful(ChunkOf(id_list, batch_size, k))) =>
                  /\ Len(results) = Len(id_list)
                  /\ \A j \in 1..Len(id_list) : results[j].pmid = PyStr(id_list[j])

\* three identifiers fetched in two calls, every response faithful: three records
C7_Witness ==
    /\ pc = "done"
    /\ json_shape = "ok"
    /\ Len(id_list) = 3 /\ id_list[1] # id_list[3]
    /\ batch_size = 2
    /\ Len(gets) = 3
    /\ docs = <<Faithful(SubSeq(id_list, 1, 2)), Faithful(SubSeq(id_list, 3, 3))>>
    /\ Len(results) = 3
    /\ Len(exported) = 4

\* ---------------------------------------------------------------- C8

\* C8 (as stated): parse_article returns, for every article element, a record with
\* exactly the fixed field set whose values are all strings.
C8_CompleteRecord ==
    parsed =>
        /\ ~IsRaise(record)
        /\ DOMAIN record = Fields
        /\ \A f \in Fields : record[f].type = "str"

\* ---------------------------------------------------------------- C9

HasLastName(author) == author.LastName.node /\ author.LastName.text # PyNone

\* C9 (as stated): an author whose LastName is absent or has no text adds nothing
\* to the authors field, so the field is the one of the article without those
\* authors ("Authors not available" when none is left); for (Smith, Jane) followed
\* by (empty last name, Bob) it is "Smith, Jane".
C9_AuthorsNeedLastName ==
    (parsed /\ ~IsRaise(record)) =>
        /\ record.authors =
              parse_authors_and_affiliations(
                  [article EXCEPT !.Authors = SelectSeq(@, HasLastName)], <<>>)[1]
        /\ article.Authors =
              <<[LastName |-> Node(PyStr("Smith")), ForeName |-> Node(PyStr("Jane")),
                 Affiliation |-> NoNode],
                [LastName |-> Node(PyNone), ForeName |-> Node(PyStr("Bob")),
                 Affiliation |-> NoNode]>>
              => record.authors = PyStr("Smith, Jane")

\* ---------------------------------------------------------------- C10

\* the path each direct-lookup field is read from
DirectPath ==
    [pmid |-> "PMID", title |-> "ArticleTitle", abstract |-> "AbstractText",
     journal |-> "JournalTitle", doi |-> "ELocationID_doi"]

\* C10 (as stated): a direct-lookup field is the text of the node found when the
\* node exists and has text, and "Not available" when no node is found or the
\* node found has no text.
C10_DirectLookup ==
    (parsed /\ ~IsRaise(record)) =>
        \A f \in DOMAIN DirectPath :
            LET found == article[DirectPath[f]]
            IN  record[f] = IF found.node /\ found.text # PyNone THEN found.text
                            ELSE PyStr("Not available")

====
